---- MODULE Spec2Model ----
(***************************************************************************)
(* Model of stackit_cost_monitoring/nagios_plugin.py: one invocation of    *)
(* the Nagios plugin, from the command line to the process exit.           *)
(*                                                                         *)
(* Money is held by the program as Python floats (IEEE-754 binary64).      *)
(* The model keeps them as binary64 values: a sign, the exponent of the    *)
(* leading bit and the 53 significand bits (most significant first), and   *)
(* computes division, addition and comparison with round-to-nearest-even   *)
(* as the interpreter does.  Dates are day numbers.                        *)
(***************************************************************************)
EXTENDS Integers, Sequences, FiniteSets, TLC

(***************************************************************************)
(* Python float (binary64) arithmetic                                      *)
(***************************************************************************)

\* width of the binary64 significand (with the leading bit)
FloatPrecision == 53

RECURSIVE Pow2(_)
Pow2(n) == IF n = 0 THEN 1 ELSE 2 * Pow2(n - 1)

Zeros(n) == [i \in 1..n |-> 0]

\* 0.0
FloatZero == [neg |-> FALSE, exp |-> 0, man |-> <<>>]

IsZero(x) == x.man = <<>>

\* bits + 1 on a most-significant-first bit string (wraps to all zeros)
IncBits(b) ==
    [i \in 1..Len(b) |->
        IF \A j \in (i + 1)..Len(b) : b[j] = 1 THEN 1 - b[i] ELSE b[i]]

\* round-to-nearest-even of the exact value  bits * 2^(e - Len(bits) + 1)
\* (+ a non-zero tail below the last bit when sticky), bits[1] = 1 and
\* Len(bits) > FloatPrecision
RoundBits(bits, sticky, e) ==
    LET top    == SubSeq(bits, 1, FloatPrecision)
        guard  == bits[FloatPrecision + 1]
        tail   == sticky \/ \E j \in (FloatPrecision + 2)..Len(bits) : bits[j] = 1
        up     == guard = 1 /\ (tail \/ top[FloatPrecision] = 1)
        inc    == IncBits(top)
    IN  IF ~up THEN [neg |-> FALSE, exp |-> e, man |-> top]
        ELSE IF inc[1] = 1 THEN [neg |-> FALSE, exp |-> e, man |-> inc]
        ELSE [neg |-> FALSE, exp |-> e + 1,
              man |-> <<1>> \o Zeros(FloatPrecision - 1)]

\* the next k quotient bits of r / d, 0 <= r < d
RECURSIVE DivBits(_, _, _)
DivBits(r, d, k) ==
    IF k = 0 THEN <<>>
    ELSE IF 2 * r >= d THEN <<1>> \o DivBits(2 * r - d, d, k - 1)
    ELSE <<0>> \o DivBits(2 * r, d, k - 1)

\* the remainder left after k quotient bits of r / d
RECURSIVE DivRem(_, _, _)
DivRem(r, d, k) ==
    IF k = 0 THEN r
    ELSE IF 2 * r >= d THEN DivRem(2 * r - d, d, k - 1)
    ELSE DivRem(2 * r, d, k - 1)

\* the largest e >= 0 with d * 2^e <= a   (a >= d)
RECURSIVE ExpUp(_, _)
ExpUp(a, d) == IF a >= 2 * d THEN 1 + ExpUp(a, 2 * d) ELSE 0

\* the smallest k > 0 with a * 2^k >= d   (0 < a < d)
RECURSIVE ExpDown(_, _)
ExpDown(a, d) == IF 2 * a >= d THEN 1 ELSE 1 + ExpDown(2 * a, d)

\* n / d for Python ints n and d > 0: the binary64 nearest to the quotient
FloatDiv(n, d) ==
    LET a == IF n < 0 THEN -n ELSE n
        e == IF a >= d THEN ExpUp(a, d) ELSE -ExpDown(a, d)
        num == IF e < 0 THEN a * Pow2(-e) ELSE a
        den == IF e > 0 THEN d * Pow2(e) ELSE d
        r0  == num - den
        bits == <<1>> \o DivBits(r0, den, FloatPrecision)
        rem  == DivRem(r0, den, FloatPrecision)
        mag  == RoundBits(bits, rem # 0, e)
    IN  IF a = 0 THEN FloatZero
        ELSE [neg |-> n < 0, exp |-> mag.exp, man |-> mag.man]

\* x[1..i] + y[1..i] + carry on equally long bit strings, carry-out in front
RECURSIVE AddBits(_, _, _, _)
AddBits(x, y, i, c) ==
    IF i = 0 THEN (IF c = 1 THEN <<1>> ELSE <<>>)
    ELSE IF x[i] + y[i] + c >= 2
    THEN Append(AddBits(x, y, i - 1, 1), x[i] + y[i] + c - 2)
    ELSE Append(AddBits(x, y, i - 1, 0), x[i] + y[i] + c)

\* x + y for floats x, y >= 0
FloatAdd(x, y) ==
    IF IsZero(x) THEN y
    ELSE IF IsZero(y) THEN x
    ELSE LET hi == IF x.exp >= y.exp THEN x ELSE y
             lo == IF x.exp >= y.exp THEN y ELSE x
             d  == hi.exp - lo.exp
             a  == hi.man \o Zeros(d)
             b  == Zeros(d) \o lo.man
             s  == AddBits(a, b, Len(a), 0)
         IN  RoundBits(s, FALSE, lo.exp - (FloatPrecision - 1) + Len(s) - 1)

BitsLess(a, b) ==
    \E i \in 1..Len(a) : a[i] < b[i] /\ \A j \in 1..(i - 1) : a[j] = b[j]

MagLess(x, y) ==
    IF IsZero(y) THEN FALSE
    ELSE IF IsZero(x) THEN TRUE
    ELSE x.exp < y.exp \/ (x.exp = y.exp /\ BitsLess(x.man, y.man))

\* x < y
FloatLess(x, y) ==
    IF x.neg /\ ~y.neg THEN TRUE
    ELSE IF ~x.neg /\ y.neg THEN FALSE
    ELSE IF x.neg THEN MagLess(y, x)
    ELSE MagLess(x, y)

\* x >= y
FloatGeq(x, y) == ~FloatLess(x, y)

\* x <= y
FloatLeq(x, y) == ~FloatLess(y, x)

\* max(x, y): Python returns the first argument unless the second is larger
FloatMax(x, y) == IF FloatLess(x, y) THEN y ELSE x


\* value of a most-significant-first bit string
RECURSIVE BitsToInt(_)
BitsToInt(b) ==
    IF b = <<>> THEN 0 ELSE 2 * BitsToInt(SubSeq(b, 1, Len(b) - 1)) + b[Len(b)]

\* a + b on bit strings of any lengths
AddAligned(a, b) ==
    LET n == IF Len(a) >= Len(b) THEN Len(a) ELSE Len(b)
    IN  AddBits(Zeros(n - Len(a)) \o a, Zeros(n - Len(b)) \o b, n, 0)

\* f"{x:.2f}" for a float x >= 0, as the number of hundredths printed: the
\* exact value of x times 100, rounded half to even
Format2f(x) ==
    LET m   == x.man
        \* 100 = 64 + 32 + 4
        p   == AddAligned(AddAligned(m \o Zeros(6), m \o Zeros(5)), m \o Zeros(2))
        s   == (FloatPrecision - 1) - x.exp
        q   == IF Len(p) > s THEN p ELSE Zeros(s + 1 - Len(p)) \o p
        k   == Len(q) - s
        int == SubSeq(q, 1, k)
        up  == /\ q[k + 1] = 1
               /\ \/ \E j \in (k + 2)..Len(q) : q[j] = 1
                  \/ (k > 0 /\ int[k] = 1)
    IN  IF IsZero(x) THEN 0
        ELSE IF s <= 0 THEN BitsToInt(p \o Zeros(-s))
        ELSE BitsToInt(int) + (IF up THEN 1 ELSE 0)

(***************************************************************************)
(* Bounds of the model                                                     *)
(***************************************************************************)

\* entries (reportData items) in one response of the cost API
MaxEntries == 3

\* UTC midnights that may pass while the plugin runs
MaxTicks == 1

(***************************************************************************)
(* Constants of the program                                                *)
(***************************************************************************)

CENTS_PER_EURO == 100

DEFAULT_WARNING_EUROS == 10

DEFAULT_CRITICAL_EUROS == 50

DEFAULT_SA_KEY_JSON == "~/.stackit/sa-key.json"

\* NagiosExitCodes: name -> value
NagiosExitCodes == [OK |-> 0, WARNING |-> 1, CRITICAL |-> 2, UNKNOWN |-> 3]

\* the fields pydantic declares for ParsedArguments
ParsedArgumentsFields ==
    {"customer_account_id", "project_id", "warning", "critical", "sa_key_json"}

(***************************************************************************)
(* State                                                                   *)
(***************************************************************************)

VARIABLES
    pc,          \* where main() is: start, get_cost, reporter, book, report, done
    utc_day,     \* datetime.now(timezone.utc).date(), as a day number
    argv,        \* the command line
    args,        \* main's args: <<>> or <<ParsedArguments>>
    auth_calls,  \* Auth(...) constructions
    queries,     \* the get_project_costs calls made, each with its date range
    result,      \* get_cost's result: <<>> or <<what get_project_costs returned>>
    cost_item,   \* main's cost_item: <<>> or <<CostApiItemWithDetails>>
    reporter,    \* main's reporter: <<>> or <<NagiosReporter>>
    stdout,      \* lines printed to standard output
    stderr,      \* what the interpreter or argparse wrote to standard error
    exc_info,    \* <<>> or <<the exception that was raised>>
    exit_code    \* <<>> while running, <<code>> once the process has exited

vars == <<pc, utc_day, argv, args, auth_calls, queries, result, cost_item,
          reporter, stdout, stderr, exc_info, exit_code>>

(***************************************************************************)
(* Inputs                                                                  *)
(***************************************************************************)

\* -w / -c values on the command line, in hundredths of a euro ("0.90" is 90)
ThresholdCents == {-100, 0, 90}

\* an option is <<>> when not given, <<value>> when given
CommandLines ==
    [customer_account_id : {<<"acct">>},
     project_id          : {<<>>, <<"proj">>},
     warning             : {<<>>} \cup {<<c>> : c \in ThresholdCents},
     critical            : {<<>>} \cup {<<c>> : c \in ThresholdCents},
     sa_key_json         : {<<>>},
     skip_discount       : BOOLEAN]

\* charge and discount of a reportData item, in cents
Amounts ==
    {[charge |-> 20, discount |-> 0],
     [charge |-> 50, discount |-> 20]}

(***************************************************************************)
(* Exceptions and the top level of main()                                  *)
(***************************************************************************)

Exc(type, msg) == [type |-> type, msg |-> msg]

NoExc == Exc("", <<>>)

\* a handler that names AuthException alone
CaughtAuthOnly(exc) == exc.type = "AuthException"

\* main(): except (AuthException, CostApiException)
Caught(exc) == exc.type \in {"AuthException", "CostApiException"}

\* the exit code of the interpreter when an exception leaves main()
UncaughtExitCode == 1

\* main()'s handler, or the interpreter's when the handler lets exc through:
\* the process ends here
Raise(exc) ==
    /\ pc' = "done"
    /\ exc_info' = <<exc>>
    /\ IF Caught(exc)
       THEN /\ stdout' = Append(stdout, [status |-> "UNKNOWN",
                                         message |-> exc.msg,
                                         perf |-> <<>>])
            /\ stderr' = stderr
            /\ exit_code' = <<NagiosExitCodes.UNKNOWN>>
       ELSE /\ stdout' = stdout
            /\ stderr' = Append(stderr, [kind |-> "traceback", exc |-> exc])
            /\ exit_code' = <<UncaughtExitCode>>

(***************************************************************************)
(* get_arguments()                                                         *)
(***************************************************************************)

\* argparse's exit code for a command line it rejects
ArgparseExitCode == 2

\* the command line lacks a required option
ParseError(cl) == cl.customer_account_id = <<>> \/ cl.project_id = <<>>

\* float("d.dd") for a threshold given with two decimals
ThresholdFloat(cents) == FloatDiv(cents, 100)

\* parser.parse_args().__dict__
ParseArgs(cl) ==
    [customer_account_id |-> cl.customer_account_id[1],
     project_id  |-> cl.project_id[1],
     warning     |-> IF cl.warning = <<>> THEN FloatDiv(DEFAULT_WARNING_EUROS, 1)
                     ELSE ThresholdFloat(cl.warning[1]),
     critical    |-> IF cl.critical = <<>> THEN FloatDiv(DEFAULT_CRITICAL_EUROS, 1)
                     ELSE ThresholdFloat(cl.critical[1]),
     sa_key_json |-> IF cl.sa_key_json = <<>> THEN DEFAULT_SA_KEY_JSON
                     ELSE cl.sa_key_json[1],
     skip_discount |-> cl.skip_discount]

\* ParsedArguments(**namespace): pydantic keeps the declared fields and
\* ignores the other keys
ParsedArguments(namespace) ==
    [f \in ParsedArgumentsFields \cap DOMAIN namespace |-> namespace[f]]

\* the two threshold checks made in the other order
ValidateArgumentsCriticalFirst(parsed) ==
    IF FloatLeq(parsed.critical, parsed.warning)
    THEN Exc("ValueError", <<"Critical threshold must be > warning threshold">>)
    ELSE IF FloatLess(parsed.warning, FloatZero)
    THEN Exc("ValueError", <<"Warning threshold must be >= 0.0">>)
    ELSE NoExc

\* the two threshold checks of get_arguments: the exception raised, or NoExc
ValidateArguments(parsed) ==
    IF FloatLess(parsed.warning, FloatZero)
    THEN Exc("ValueError", <<"Warning threshold must be >= 0.0">>)
    ELSE IF FloatLeq(parsed.critical, parsed.warning)
    THEN Exc("ValueError", <<"Critical threshold must be > warning threshold">>)
    ELSE NoExc

GetArguments ==
    /\ pc = "start"
    /\ UNCHANGED <<utc_day, argv, auth_calls, queries, result, cost_item,
                   reporter>>
    /\ IF ParseError(argv)
       THEN /\ pc' = "done"
            /\ stderr' = Append(stderr, [kind |-> "usage"])
            /\ exit_code' = <<ArgparseExitCode>>
            /\ UNCHANGED <<args, stdout, exc_info>>
       ELSE LET parsed == ParsedArguments(ParseArgs(argv))
                exc    == ValidateArguments(parsed)
            IN  IF exc # NoExc
                THEN Raise(exc) /\ UNCHANGED args
                ELSE /\ args' = <<parsed>>
                     /\ pc' = "get_cost"
                     /\ UNCHANGED <<stdout, stderr, exc_info, exit_code>>

(***************************************************************************)
(* get_cost(args)                                                          *)
(***************************************************************************)

\* the reportData items the cost API may return for a date range: the spec
\* promises the two days asked for; the program also checks for another day
ApiEntries(from_date, to_date) ==
    {[start |-> dt, charge |-> a.charge, discount |-> a.discount] :
        dt \in {from_date, to_date}, a \in Amounts}
    \cup {[start |-> from_date - 1, charge |-> 20, discount |-> 0]}

\* what Auth(path) does
AuthOutcomes ==
    {[kind |-> "session"],
     [kind |-> "raise", exc |-> Exc("AuthException", <<"cannot read key">>)]}

\* what get_project_costs does
ApiOutcomes(from_date, to_date) ==
    {[kind |-> "raise", exc |-> Exc("CostApiException", <<"HTTP 500">>)],
     [kind |-> "raise", exc |-> Exc("AuthException", <<"token refused">>)],
     [kind |-> "item"]}
    \cup {[kind |-> "details", reportData |-> rd] :
            rd \in UNION {[1..n -> ApiEntries(from_date, to_date)] :
                            n \in 0..MaxEntries}}

\* isinstance(result, CostApiItemWithDetails)
IsCostApiItemWithDetails(item) == item.kind = "details"

GetCost ==
    /\ pc = "get_cost"
    /\ UNCHANGED <<utc_day, argv, args, reporter>>
    /\ auth_calls' = auth_calls + 1
    /\ \E auth \in AuthOutcomes :
         IF auth.kind = "raise"
         THEN Raise(auth.exc) /\ UNCHANGED <<queries, result, cost_item>>
         ELSE LET today     == utc_day
                  yesterday == today - 1
              IN  /\ queries' = Append(queries, [from_date |-> yesterday,
                                                 to_date |-> today])
                  /\ \E outcome \in ApiOutcomes(yesterday, today) :
                       IF outcome.kind = "raise"
                       THEN Raise(outcome.exc) /\ UNCHANGED <<result, cost_item>>
                       ELSE /\ result' = <<outcome>>
                            /\ IF ~IsCostApiItemWithDetails(outcome)
                               THEN /\ Raise(Exc("Exception",
                                      <<"CostAPI returned item without report data!">>))
                                    /\ UNCHANGED cost_item
                               ELSE /\ cost_item' = <<outcome>>
                                    /\ pc' = "reporter"
                                    /\ UNCHANGED <<stdout, stderr, exc_info,
                                                   exit_code>>

(***************************************************************************)
(* NagiosReporter                                                          *)
(***************************************************************************)

\* NagiosReporter.__init__(args), with the UTC date the clock shows
NewReporter(a, now) ==
    [args |-> a,
     today |-> now,
     yesterday |-> now - 1,
     today_cost |-> FloatZero,
     today_discounted_cost |-> FloatZero,
     yesterday_cost |-> FloatZero,
     yesterday_discounted_cost |-> FloatZero]

\* the body of book_cost_item's loop for one reportData item: the reporter
\* after it, or the exception raised
BookOne(r, report_data) ==
    IF report_data.start = r.today
    THEN [rep |-> [r EXCEPT
                     !.today_cost = FloatAdd(@,
                         FloatDiv(report_data.charge, CENTS_PER_EURO)),
                     !.today_discounted_cost = FloatAdd(@,
                         FloatDiv(report_data.discount, CENTS_PER_EURO))],
          exc |-> NoExc]
    ELSE IF report_data.start = r.yesterday
    THEN [rep |-> [r EXCEPT
                     !.yesterday_cost = FloatAdd(@,
                         FloatDiv(report_data.charge, CENTS_PER_EURO)),
                     !.yesterday_discounted_cost = FloatAdd(@,
                         FloatDiv(report_data.discount, CENTS_PER_EURO))],
          exc |-> NoExc]
    ELSE [rep |-> r,
          exc |-> Exc("Exception",
                      <<"CostApi returned unexpected date: ", report_data.start>>)]

\* book_cost_item from item i of reportData on: the loop stops at the first
\* exception
RECURSIVE BookFrom(_, _, _)
BookFrom(r, reportData, i) ==
    IF i > Len(reportData) THEN [rep |-> r, exc |-> NoExc]
    ELSE LET one == BookOne(r, reportData[i])
         IN  IF one.exc # NoExc THEN one
             ELSE BookFrom(one.rep, reportData, i + 1)

\* book_cost_item(cost_item)
BookCostItem(r, item) == BookFrom(r, item.reportData, 1)

\* _finish(status, message): the line printed; the exit code is the status'
\* value
Finish(r, status, message) ==
    [status  |-> status,
     message |-> message,
     perf    |-> <<<<"yesterday_cost", Format2f(r.yesterday_cost)>>,
                   <<"yesterday_discounted_cost",
                     Format2f(r.yesterday_discounted_cost)>>,
                   <<"today_cost", Format2f(r.today_cost)>>,
                   <<"today_discounted_cost",
                     Format2f(r.today_discounted_cost)>>>>]

\* the total do_report compares with the thresholds
TotalCost(r) ==
    LET today_cost     == IF ~r.args.skip_discount
                          THEN FloatAdd(r.today_cost, r.today_discounted_cost)
                          ELSE r.today_cost
        yesterday_cost == IF ~r.args.skip_discount
                          THEN FloatAdd(r.yesterday_cost,
                                        r.yesterday_discounted_cost)
                          ELSE r.yesterday_cost
    IN  FloatMax(today_cost, yesterday_cost)

\* the status do_report gives a total
Classify(total_cost, a) ==
    IF FloatGeq(total_cost, a.critical) THEN "CRITICAL"
    ELSE IF FloatGeq(total_cost, a.warning) THEN "WARNING"
    ELSE "OK"

\* do_report(): the line it prints, or the exception it raises
DoReportResult(r) ==
    IF "skip_discount" \notin DOMAIN r.args
    THEN [exc |-> Exc("AttributeError",
              <<"'ParsedArguments' object has no attribute 'skip_discount'">>)]
    ELSE LET total_cost == TotalCost(r)
             status     == Classify(total_cost, r.args)
             message    ==
                 IF status = "CRITICAL"
                 THEN <<"Daily costs", Format2f(total_cost), "EUR >=",
                        r.args.critical, "EUR">>
                 ELSE IF status = "WARNING"
                 THEN <<"Daily costs", Format2f(total_cost), "EUR >=",
                        r.args.warning, "EUR">>
                 ELSE <<"Daily costs", Format2f(total_cost), "EUR">>
         IN  [exc |-> NoExc, line |-> Finish(r, status, message)]

(***************************************************************************)
(* The steps of main() after get_cost, and the clock                       *)
(***************************************************************************)

MakeReporter ==
    /\ pc = "reporter"
    /\ reporter' = <<NewReporter(args[1], utc_day)>>
    /\ pc' = "book"
    /\ UNCHANGED <<utc_day, argv, args, auth_calls, queries, result, cost_item,
                   stdout, stderr, exc_info, exit_code>>

Book ==
    /\ pc = "book"
    /\ UNCHANGED <<utc_day, argv, args, auth_calls, queries, result,
                   cost_item>>
    /\ LET res == BookCostItem(reporter[1], cost_item[1])
       IN  /\ reporter' = <<res.rep>>
           /\ IF res.exc # NoExc
              THEN Raise(res.exc)
              ELSE /\ pc' = "report"
                   /\ UNCHANGED <<stdout, stderr, exc_info, exit_code>>

DoReport ==
    /\ pc = "report"
    /\ UNCHANGED <<utc_day, argv, args, auth_calls, queries, result, cost_item,
                   reporter>>
    /\ LET res == DoReportResult(reporter[1])
       IN  IF res.exc # NoExc
           THEN Raise(res.exc)
           ELSE /\ pc' = "done"
                /\ stdout' = Append(stdout, res.line)
                /\ stderr' = stderr
                /\ exc_info' = exc_info
                /\ exit_code' = <<NagiosExitCodes[res.line.status]>>

\* UTC midnight passes between get_cost's reading of the clock and the
\* reporter's (a midnight before the first reading is a run started a day
\* later; the clock is not read after the second)
Tick ==
    /\ pc = "reporter"
    /\ utc_day < 2 + MaxTicks
    /\ utc_day' = utc_day + 1
    /\ UNCHANGED <<pc, argv, args, auth_calls, queries, result, cost_item,
                   reporter, stdout, stderr, exc_info, exit_code>>

Init ==
    /\ pc = "start"
    /\ utc_day = 2
    /\ argv \in CommandLines
    /\ args = <<>>
    /\ auth_calls = 0
    /\ queries = <<>>
    /\ result = <<>>
    /\ cost_item = <<>>
    /\ reporter = <<>>
    /\ stdout = <<>>
    /\ stderr = <<>>
    /\ exc_info = <<>>
    /\ exit_code = <<>>

Next ==
    \/ GetArguments
    \/ GetCost
    \/ MakeReporter
    \/ Book
    \/ DoReport
    \/ Tick

Spec == Init /\ [][Next]_vars

(***************************************************************************)
(* What the properties speak of                                            *)
(***************************************************************************)

\* the thresholds of the command line in hundredths of a euro
WarningCents ==
    IF argv.warning = <<>> THEN 100 * DEFAULT_WARNING_EUROS ELSE argv.warning[1]

CriticalCents ==
    IF argv.critical = <<>> THEN 100 * DEFAULT_CRITICAL_EUROS ELSE argv.critical[1]

\* argparse accepts the command line and the thresholds break a constraint
InvalidThresholds ==
    /\ ~ParseError(argv)
    /\ (WarningCents < 0 \/ CriticalCents <= WarningCents)

\* the line "UNKNOWN: <message> |"
UnknownLine(msg) == [status |-> "UNKNOWN", message |-> msg, perf |-> <<>>]

\* every item the reporter was given is dated with its today or yesterday
AllDatesExpected ==
    /\ reporter # <<>>
    /\ \A i \in DOMAIN cost_item[1].reportData :
         cost_item[1].reportData[i].start
            \in {reporter[1].today, reporter[1].yesterday}

\* the process has ended after do_report was called
DoReportRan == pc = "done" /\ AllDatesExpected

\* a day's total as the run was asked to compute it on the command line
DayTotal(charge, discount) ==
    IF argv.skip_discount THEN charge ELSE FloatAdd(charge, discount)

\* max(todayTotal, yesterdayTotal) of a reporter
ReportedCost(r) ==
    LET today     == DayTotal(r.today_cost, r.today_discounted_cost)
        yesterday == DayTotal(r.yesterday_cost, r.yesterday_discounted_cost)
    IN  IF FloatLess(today, yesterday) THEN yesterday ELSE today

\* reportData in the order p
Permute(reportData, p) == [i \in DOMAIN reportData |-> reportData[p[i]]]

(***************************************************************************)
(* Properties                                                              *)
(***************************************************************************)

\* C1: once do_report has run, the status printed is a step function of
\* reportedCost with inclusive lower bounds: below warning OK, from warning
\* up to but not including critical WARNING, from critical on CRITICAL.
C1_StepFunction ==
    DoReportRan =>
        LET a    == ParseArgs(argv)
            cost == ReportedCost(reporter[1])
        IN  /\ Len(stdout) = 1
            /\ stdout[1].status =
                 IF FloatLess(cost, a.warning) THEN "OK"
                 ELSE IF FloatLess(cost, a.critical) THEN "WARNING"
                 ELSE "CRITICAL"

\* C2: a run started without --skip-discount reports max over the days of
\* charge + discount, a run started with it max over the days of charge, and
\* either run reaches classification and prints an OK, WARNING or CRITICAL
\* line for that total.
C2_DiscountFlagDecidesTotal ==
    DoReportRan =>
        /\ Len(stdout) = 1
        /\ stdout[1].status \in {"OK", "WARNING", "CRITICAL"}
        /\ stdout[1].message[2] = Format2f(ReportedCost(reporter[1]))

\* C3: the value compared with the thresholds is max(todayTotal,
\* yesterdayTotal) and is the same whatever the order in which the entries
\* were passed to book_cost_item.
C3_OrderIndependent ==
    (pc = "report" /\ AllDatesExpected) =>
        \A p \in Permutations(DOMAIN cost_item[1].reportData) :
            LET fresh == NewReporter(args[1], reporter[1].today)
                other == BookFrom(fresh,
                                  Permute(cost_item[1].reportData, p), 1).rep
            IN  ReportedCost(other) = ReportedCost(reporter[1])

\* C4: when the credential loader or the cost query raised AuthException or
\* CostApiException, the run has printed the one line "UNKNOWN: <message> |"
\* with no perf data, nothing else, and exited with code 3.
C4_CollaboratorErrorIsUnknown ==
    (exc_info # <<>>
        /\ exc_info[1].type \in {"AuthException", "CostApiException"}) =>
        /\ pc = "done"
        /\ stdout = <<UnknownLine(exc_info[1].msg)>>
        /\ stderr = <<>>
        /\ exit_code = <<3>>

\* C4 happens: the cost query raised a service error and the run has ended
C4_Witness ==
    /\ pc = "done"
    /\ queries # <<>>
    /\ exc_info # <<>>
    /\ exc_info[1].type = "CostApiException"

\* C5: a run that was given an entry dated neither today nor yesterday ends
\* with the line "UNKNOWN: <message> |" and exit code 3.
C5_UnexpectedDateIsUnknown ==
    (pc = "done" /\ reporter # <<>> /\ ~AllDatesExpected) =>
        /\ Len(stdout) = 1
        /\ stdout[1].status = "UNKNOWN"
        /\ stdout[1].perf = <<>>
        /\ exit_code = <<3>>

\* C6: a run whose cost query returned an item without per-day report
\* detail ends with an UNKNOWN line carrying the message and exit code 3.
C6_MissingDetailIsUnknown ==
    (pc = "done" /\ result # <<>> /\ result[1].kind = "item") =>
        /\ Len(stdout) = 1
        /\ stdout[1].status = "UNKNOWN"
        /\ stdout[1].message = exc_info[1].msg
        /\ exit_code = <<3>>

\* C7: with warning < 0 or critical <= warning the run never leaves the
\* resolution of its configuration: no Auth is built, no query is made, and
\* the failure reported is the warning's when both constraints are broken.
C7_NoQueryOnInvalidThresholds ==
    InvalidThresholds =>
        /\ pc \in {"start", "done"}
        /\ args = <<>>
        /\ auth_calls = 0
        /\ queries = <<>>
        /\ result = <<>>
        /\ pc = "done" =>
             /\ exc_info # <<>>
             /\ exc_info[1].msg =
                  IF WarningCents < 0
                  THEN <<"Warning threshold must be >= 0.0">>
                  ELSE <<"Critical threshold must be > warning threshold">>

\* C7 happens: both constraints are broken and the run has ended
C7_Witness ==
    /\ pc = "done"
    /\ ~ParseError(argv)
    /\ WarningCents < 0
    /\ CriticalCents <= WarningCents
    /\ exc_info # <<>>

\* C8: a run whose thresholds are invalid exits with code 3, and a run exits
\* with 0, 1 or 2 only after printing the OK, WARNING or CRITICAL line.
C8_InvalidThresholdsExitUnknown ==
    /\ (pc = "done" /\ InvalidThresholds) => exit_code = <<3>>
    /\ (pc = "done" /\ ~ParseError(argv) /\ exit_code[1] \in {0, 1, 2}) =>
          /\ Len(stdout) = 1
          /\ stdout[1].status \in {"OK", "WARNING", "CRITICAL"}
          /\ exit_code[1] = NagiosExitCodes[stdout[1].status]

\* C9: a run that got past the resolution of its configuration ends with
\* exactly one line on standard output, nothing on standard error, and the
\* exit code of the status on that line.
C9_OneLineAndMatchingExit ==
    (pc = "done" /\ args # <<>>) =>
        /\ Len(stdout) = 1
        /\ stderr = <<>>
        /\ exit_code = <<NagiosExitCodes[stdout[1].status]>>

\* C10: the reporter's today and yesterday are the dates the query was made
\* for, also when UTC midnight passes between the two.
C10_SameDates ==
    reporter # <<>> =>
        /\ reporter[1].today = queries[1].to_date
        /\ reporter[1].yesterday = queries[1].from_date

====
